---- MODULE Spec2Model ----
(***************************************************************************)
(* Model of terraform-provider-legocharm: the LegoCharm HTTP client        *)
(* (legocharmclient), the two resource reconcilers (UserResource,          *)
(* UserDomainAccessResource) and the provider's resource registration,     *)
(* run against a model of the remote LegoCharm REST service.               *)
(*                                                                         *)
(* Strings are sequences of one-character strings, so that the composite   *)
(* keys built with ":" and split on ":" are computed as the code computes  *)
(* them.  A null types.String is the value Null; a null types.Int64 is     *)
(* NullInt.                                                                *)
(***************************************************************************)
EXTENDS Integers, Sequences, FiniteSets, TLC

VARIABLES
    remote,       \* the remote service: users, domains, grants, id counters
    userState,    \* the stored state of the legocharm_user resource
    accessState,  \* the stored state of the legocharm_user_domain_access resource
    last,         \* the last reconciler operation: its exchanges and diagnostics
    host          \* the plugin host's view: provider data, resource clients, type lookups

vars == <<remote, userState, accessState, last, host>>

(***************************************************************************)
(* Bounds of the model.                                                    *)
(***************************************************************************)
MaxUserId == 2      \* ids the remote may hand out to users
MaxDomainId == 2    \* ids the remote may hand out to domains
MaxGrantId == 2     \* ids the remote may hand out to grants
MaxAccessUsers == 1 \* users the remote holds when grants are reconciled
MaxFaults == 1      \* responses per operation that deviate from the plain honest one
MaxReqs == 5        \* longest request chain considered in one operation
MaxLen == 3         \* longest address, request path and URL path handed to the client package

(***************************************************************************)
(* Strings.                                                                *)
(***************************************************************************)
Null == <<"<null>">>
NullInt == -1

\* types.String.IsNull / ValueString, types.Int64.IsNull / ValueInt64
IsNull(s) == s = Null
ValueString(s) == IF s = Null THEN <<>> ELSE s
ValueInt64(n) == IF n = NullInt THEN 0 ELSE n

Digit(n) == CASE n = 0 -> "0" [] n = 1 -> "1" [] n = 2 -> "2" [] n = 3 -> "3"
              [] n = 4 -> "4" [] n = 5 -> "5" [] n = 6 -> "6" [] n = 7 -> "7"
              [] n = 8 -> "8" [] n = 9 -> "9"

RECURSIVE Itoa(_)
Itoa(n) == IF n < 10 THEN <<Digit(n)>> ELSE Itoa(n \div 10) \o <<Digit(n % 10)>>

\* index of the first occurrence of character c in s, 0 when there is none
RECURSIVE IndexFrom(_, _, _)
IndexFrom(s, c, i) ==
    IF i > Len(s) THEN 0
    ELSE IF s[i] = c THEN i
    ELSE IndexFrom(s, c, i + 1)

\* strings.Split(s, sep) for a one-character separator
RECURSIVE Split(_, _)
Split(s, sep) ==
    LET i == IndexFrom(s, sep, 1)
    IN  IF i = 0 THEN <<s>>
        ELSE <<SubSeq(s, 1, i - 1)>> \o Split(SubSeq(s, i + 1, Len(s)), sep)

\* strings.TrimSuffix(s, "/")
TrimSuffixSlash(s) ==
    IF Len(s) > 0 /\ s[Len(s)] = "/" THEN SubSeq(s, 1, Len(s) - 1) ELSE s

\* LastPathSegment: the last element of the path after one trailing "/" is cut
LastPathSegment(u) ==
    LET parts == Split(TrimSuffixSlash(u), "/")
    IN  IF Len(parts) = 0 THEN <<>> ELSE parts[Len(parts)]

(***************************************************************************)
(* The remote LegoCharm service (an external collaborator).  It holds      *)
(* users, domains and grants; it hands out ids from per-table counters and *)
(* never reuses one.  Usernames are unique.  It does not itself refuse a   *)
(* second grant for the same user and domain, nor a second domain with the *)
(* same FQDN: the client looks before it creates.                          *)
(***************************************************************************)
AdminCreds == [username |-> <<"a">>, password |-> <<"s">>]

\* JSON objects are records; a struct decode reads the fields it knows
UserJSON(u) == [username |-> u.username, url |-> <<"u", "/">> \o Itoa(u.id) \o <<"/">>,
               email |-> u.email]
DomainJSON(d) == [fqdn |-> d.fqdn, id |-> d.id]
GrantJSON(g) == [user |-> g.user, domain |-> g.domain,
                 access_level |-> g.access_level, id |-> g.id]
ErrorJSON == [detail |-> <<"x">>]

Resp(status, kind, items) == [status |-> status, kind |-> kind, items |-> items]

NoQuery == [username |-> Null, fqdn |-> Null]
NoPayload == [none |-> TRUE]

Req(method, ep, id, query, payload, auth) ==
    [method |-> method, ep |-> ep, id |-> id, query |-> query,
     payload |-> payload, auth |-> auth]

\* a set of records as a sequence, ordered by id
RECURSIVE ById(_)
ById(S) ==
    IF S = {} THEN <<>>
    ELSE LET x == CHOOSE y \in S : \A z \in S : y.id <= z.id
         IN  <<x>> \o ById(S \ {x})

RECURSIVE MapSeq(_, _)
MapSeq(F(_), s) == IF s = <<>> THEN <<>> ELSE <<F(Head(s))>> \o MapSeq(F, Tail(s))

UsersNamed(R, name) == {u \in R.users : u.username = name}
UsersWithId(R, idstr) == {u \in R.users : Itoa(u.id) = idstr}
DomainsNamed(R, fqdn) == {d \in R.domains : d.fqdn = fqdn}
GrantsFor(R, name, fqdn) ==
    {g \in R.grants :
        /\ \E u \in R.users : u.id = g.user /\ u.username = name
        /\ \E d \in R.domains : d.id = g.domain /\ d.fqdn = fqdn}

\* a list endpoint answers 200 with the matches; with nothing to list it
\* answers an empty list, or 404 when notFound404
ListResp(objs, notFound404) ==
    IF objs = <<>> /\ notFound404 THEN Resp(404, "object", <<ErrorJSON>>)
    ELSE Resp(200, "list", objs)

Unchanged(R, resp) == [R |-> R, resp |-> resp]

\* has the request the credentials of the superuser, of a plain user, or of nobody
AuthOf(R, auth) ==
    IF auth = AdminCreds THEN "admin"
    ELSE IF \E u \in R.users :
                u.username = auth.username /\ u.password = auth.password
         THEN IF \E u \in R.users : u.username = auth.username /\ u.admin
              THEN "admin" ELSE "user"
         ELSE "nobody"

HonestAuthorized(R, req, notFound404) ==
    CASE req.method = "GET" /\ req.ep = "/api/v1/users/{id}/" ->
            LET us == UsersWithId(R, req.id)
            IN  IF us = {} THEN Unchanged(R, Resp(404, "object", <<ErrorJSON>>))
                ELSE Unchanged(R, Resp(200, "object", <<UserJSON(CHOOSE u \in us : TRUE)>>))
      [] req.method = "GET" /\ req.ep = "/api/v1/users/" ->
            Unchanged(R, ListResp(MapSeq(UserJSON, ById(UsersNamed(R, req.query.username))),
                                  notFound404))
      [] req.method = "POST" /\ req.ep = "/api/v1/users/" ->
            IF UsersNamed(R, req.payload.username) # {}
            THEN Unchanged(R, Resp(400, "object", <<ErrorJSON>>))
            ELSE LET u == [id |-> R.nextUser, username |-> req.payload.username,
                           email |-> req.payload.email,
                           password |-> req.payload.password, admin |-> FALSE]
                 IN  [R |-> [R EXCEPT !.users = @ \cup {u}, !.nextUser = @ + 1],
                      resp |-> Resp(201, "object", <<UserJSON(u)>>)]
      [] req.method = "DELETE" /\ req.ep = "/api/v1/users/{id}/" ->
            LET us == UsersWithId(R, req.id)
            IN  IF us = {} THEN Unchanged(R, Resp(404, "object", <<ErrorJSON>>))
                ELSE [R |-> [R EXCEPT !.users = @ \ us,
                                      !.grants = {g \in @ : \A u \in us : g.user # u.id}],
                      resp |-> Resp(204, "none", <<>>)]
      [] req.method = "GET" /\ req.ep = "/api/v1/domain-user-permissions/" ->
            Unchanged(R, ListResp(MapSeq(GrantJSON,
                                         ById(GrantsFor(R, req.query.username, req.query.fqdn))),
                                  notFound404))
      [] req.method = "POST" /\ req.ep = "/api/v1/domain-user-permissions/" ->
            IF \/ UsersWithId(R, req.payload.user) = {}
               \/ ~ \E d \in R.domains : d.id = req.payload.domain
            THEN Unchanged(R, Resp(400, "object", <<ErrorJSON>>))
            ELSE LET g == [id |-> R.nextGrant,
                           user |-> (CHOOSE u \in UsersWithId(R, req.payload.user) : TRUE).id,
                           domain |-> req.payload.domain,
                           access_level |-> req.payload.access_level]
                 IN  [R |-> [R EXCEPT !.grants = @ \cup {g}, !.nextGrant = @ + 1],
                      resp |-> Resp(201, "object", <<GrantJSON(g)>>)]
      [] req.method = "DELETE" /\ req.ep = "/api/v1/domain-user-permissions/{id}/" ->
            LET gs == {g \in R.grants : Itoa(g.id) = req.id}
            IN  IF gs = {} THEN Unchanged(R, Resp(404, "object", <<ErrorJSON>>))
                ELSE [R |-> [R EXCEPT !.grants = @ \ gs], resp |-> Resp(204, "none", <<>>)]
      [] req.method = "GET" /\ req.ep = "/api/v1/domains/" ->
            Unchanged(R, ListResp(MapSeq(DomainJSON, ById(DomainsNamed(R, req.query.fqdn))),
                                  notFound404))
      [] req.method = "POST" /\ req.ep = "/api/v1/domains/" ->
            LET d == [id |-> R.nextDomain, fqdn |-> req.payload.fqdn]
            IN  [R |-> [R EXCEPT !.domains = @ \cup {d}, !.nextDomain = @ + 1],
                 resp |-> Resp(201, "object", <<DomainJSON(d)>>)]

\* the service's own answer: 401 to unknown credentials, 403 to a user who
\* is no superuser, the endpoint's answer to a superuser
HonestAs(who, R, req, notFound404) ==
    CASE who = "nobody" -> Unchanged(R, Resp(401, "object", <<ErrorJSON>>))
      [] who = "user" -> Unchanged(R, Resp(403, "object", <<ErrorJSON>>))
      [] who = "admin" -> HonestAuthorized(R, req, notFound404)

\* how one exchange goes: the honest answer, or a failure that changes nothing
AnswerKinds == {"ok", "ok404", "neterr", "s300", "s500", "s502"}

Serve(R, req, kind) ==
    CASE kind \in {"ok", "ok404"} -> HonestAs(AuthOf(R, req.auth), R, req, kind = "ok404")
      [] kind = "neterr" -> Unchanged(R, Resp(0, "none", <<>>))
      [] kind = "s300" -> Unchanged(R, Resp(300, "object", <<ErrorJSON>>))
      [] kind = "s500" -> Unchanged(R, Resp(500, "object", <<ErrorJSON>>))
      [] kind = "s502" -> Unchanged(R, Resp(502, "html", <<>>))

\* the answers of one operation of n requests, one per request in the order
\* sent; at most MaxFaults of them deviate from the plain honest answer
PlansOfLength(n) ==
    {f \in [1..n -> AnswerKinds] :
        Cardinality({i \in 1..n : f[i] # "ok"}) <= MaxFaults}

AnswerPlans == [n \in 1..MaxReqs |-> PlansOfLength(n)]

(***************************************************************************)
(* legocharmclient: the HTTP client.  A call context c carries the remote  *)
(* service, the exchanges made so far and the client (BaseURL, Username,   *)
(* Password); the n-th request of an operation gets the n-th answer of the *)
(* operation's answer plan.  Each helper is written as the request it      *)
(* sends followed by its reading of the answer.                            *)
(***************************************************************************)
NoError == "nil"
ErrNotFound == "ErrNotFound"
WrappedErrNotFound == "wrapped ErrNotFound"   \* fmt.Errorf("...: %w", ErrNotFound)
OtherError == "error"

\* fmt.Errorf("...: %w", err)
Wrap(err) == IF err \in {ErrNotFound, WrappedErrNotFound} THEN WrappedErrNotFound ELSE OtherError
\* a variant: err == ErrNotFound, which a wrapped error does not satisfy
ErrorEqualsNotFound(err) == err = ErrNotFound

\* errors.Is(err, ErrNotFound)
ErrorsIsNotFound(err) == err \in {ErrNotFound, WrappedErrNotFound}

ZeroUser == [Username |-> <<>>, Url |-> <<>>, Email |-> <<>>]
ZeroDomain == [Fqdn |-> <<>>, ID |-> 0]
ZeroGrant == [UserID |-> 0, Domain |-> 0, AccessLevel |-> <<>>, ID |-> 0]

Field(o, name, zero) == IF name \in DOMAIN o THEN o[name] ELSE zero

\* json.Unmarshal of one JSON object into UserData, DomainData, DomainUserPermissionData
DecodeUser(o) == [Username |-> Field(o, "username", <<>>), Url |-> Field(o, "url", <<>>),
                  Email |-> Field(o, "email", <<>>)]
DecodeDomain(o) == [Fqdn |-> Field(o, "fqdn", <<>>), ID |-> Field(o, "id", 0)]
DecodeGrant(o) == [UserID |-> Field(o, "user", 0), Domain |-> Field(o, "domain", 0),
                   AccessLevel |-> Field(o, "access_level", <<>>), ID |-> Field(o, "id", 0)]

Ret(c, val, err) == [c |-> c, val |-> val, err |-> err]

\* the exchange is appended to the operation's log
Exchanged(c, req, a) ==
    [c |-> [c EXCEPT !.R = a.R, !.log = Append(@, [req |-> req, resp |-> a.resp])],
     resp |-> a.resp]

Send(c, plan, req) == Exchanged(c, req, Serve(c.R, req, plan[Len(c.log) + 1]))

\* Client.NewRequest and Client.Do: basic auth from the client's own credentials
Do(c, plan, method, ep, id, query, payload) ==
    Send(c, plan, Req(method, ep, id, query, payload,
                      [username |-> c.client.Username, password |-> c.client.Password]))

TransportFailed(resp) == resp.status = 0

\* json.Unmarshal into a struct takes a JSON object only
DecodeObject(c, resp, Decode(_), zero) ==
    IF resp.kind = "object" THEN Ret(c, Decode(resp.items[1]), NoError)
    ELSE Ret(c, zero, OtherError)

\* the "array first, then single object" decode shared by the list lookups
DecodeListOrObject(c, resp, Decode(_), zero) ==
    IF resp.kind = "list"
    THEN IF Len(resp.items) = 0 THEN Ret(c, zero, ErrNotFound)
         ELSE Ret(c, Decode(resp.items[1]), NoError)
    ELSE DecodeObject(c, resp, Decode, zero)

GetUserByIdAnswer(x) ==
    IF TransportFailed(x.resp) THEN Ret(x.c, ZeroUser, OtherError)
    ELSE IF x.resp.status = 404 THEN Ret(x.c, ZeroUser, ErrNotFound)
    ELSE DecodeObject(x.c, x.resp, DecodeUser, ZeroUser)

GetUserById(c, plan, userId) ==
    GetUserByIdAnswer(Do(c, plan, "GET", "/api/v1/users/{id}/", userId, NoQuery, NoPayload))

GetUserByUsernameAnswer(x) ==
    IF TransportFailed(x.resp) THEN Ret(x.c, ZeroUser, OtherError)
    ELSE IF x.resp.status = 404 THEN Ret(x.c, ZeroUser, ErrNotFound)
    ELSE DecodeListOrObject(x.c, x.resp, DecodeUser, ZeroUser)

GetUserByUsername(c, plan, username) ==
    GetUserByUsernameAnswer(Do(c, plan, "GET", "/api/v1/users/", <<>>,
                               [username |-> username, fqdn |-> Null], NoPayload))

\* the status test of the three create helpers
CreateRefused(status) == status < 200 \/ status >= 400

CreateUserAnswer(x) ==
    IF TransportFailed(x.resp) THEN Ret(x.c, ZeroUser, OtherError)
    ELSE IF CreateRefused(x.resp.status) THEN Ret(x.c, ZeroUser, OtherError)
    ELSE DecodeObject(x.c, x.resp, DecodeUser, ZeroUser)

CreateUser(c, plan, user) ==
    CreateUserAnswer(Do(c, plan, "POST", "/api/v1/users/", <<>>, NoQuery, user))

\* the DELETE helpers hand back the response unread
DeleteAnswer(x) ==
    IF TransportFailed(x.resp) THEN Ret(x.c, x.resp, OtherError)
    ELSE Ret(x.c, x.resp, NoError)

DeleteUserById(c, plan, id) ==
    DeleteAnswer(Do(c, plan, "DELETE", "/api/v1/users/{id}/", id, NoQuery, NoPayload))

\* url.Parse's scheme scan (getScheme): the scheme ends at the first ":";
\* a leading ":" is a parse error; any other character first means no scheme
RECURSIVE GetSchemeFrom(_, _)
GetSchemeFrom(u, i) ==
    IF i > Len(u) THEN [scheme |-> <<>>, err |-> FALSE]
    ELSE IF u[i] \in {"h", "t", "p", "s", "x"} THEN GetSchemeFrom(u, i + 1)
    ELSE IF u[i] \in {"0", "1", "2", "3", "4", "5", "6", "7", "8", "9", "+", "-", "."}
         THEN IF i = 1 THEN [scheme |-> <<>>, err |-> FALSE] ELSE GetSchemeFrom(u, i + 1)
    ELSE IF u[i] = ":"
         THEN IF i = 1 THEN [scheme |-> <<>>, err |-> TRUE]
              ELSE [scheme |-> SubSeq(u, 1, i - 1), err |-> FALSE]
    ELSE [scheme |-> <<>>, err |-> FALSE]

\* err != nil || !parsed.IsAbs()
NotAbsoluteScheme(g) == g.err \/ g.scheme = <<>>
NotAbsolute(u) == NotAbsoluteScheme(GetSchemeFrom(u, 1))

HasPrefix(u, p) == Len(u) >= Len(p) /\ SubSeq(u, 1, Len(p)) = p

RECURSIVE TrimRightSlash(_)
TrimRightSlash(u) ==
    IF Len(u) > 0 /\ u[Len(u)] = "/" THEN TrimRightSlash(SubSeq(u, 1, Len(u) - 1)) ELSE u

RECURSIVE TrimLeftSlash(_)
TrimLeftSlash(u) ==
    IF Len(u) > 0 /\ u[1] = "/" THEN TrimLeftSlash(Tail(u)) ELSE u

HttpPrefix == <<"h", "t", "t", "p", ":", "/", "/">>
HttpsPrefix == <<"h", "t", "t", "p", "s", ":", "/", "/">>

NilClient == [nil |-> TRUE]
MkClient(base, username, password) ==
    [BaseURL |-> base, Username |-> username, Password |-> password]

\* NewClient, the address: "https://" is put before an address without scheme
WithScheme(address) ==
    IF NotAbsolute(address)
         /\ ~ HasPrefix(address, HttpPrefix) /\ ~ HasPrefix(address, HttpsPrefix)
    THEN HttpsPrefix \o address ELSE address

\* a variant: one trailing "/" is cut from the address, as TrimSuffix would
NewClientAtTrimsOnce(u, username, password, timeoutEnv) ==
    IF NotAbsolute(u) THEN [client |-> NilClient, err |-> OtherError]
    ELSE IF timeoutEnv = "invalid" THEN [client |-> NilClient, err |-> OtherError]
    ELSE [client |-> MkClient(TrimSuffixSlash(u), username, password), err |-> NoError]

NewClientAt(u, username, password, timeoutEnv) ==
    IF NotAbsolute(u) THEN [client |-> NilClient, err |-> OtherError]
    ELSE IF timeoutEnv = "invalid" THEN [client |-> NilClient, err |-> OtherError]
    ELSE [client |-> MkClient(TrimRightSlash(u), username, password), err |-> NoError]

\* NewClient(address, username, password *string); a nil pointer is Null.
\* timeoutEnv is LEGOCHARM_API_TIMEOUT: "unset", "valid" or "invalid".
NewClient(address, username, password, timeoutEnv) ==
    IF address = Null \/ address = <<>> THEN [client |-> NilClient, err |-> OtherError]
    ELSE IF username = Null \/ username = <<>> THEN [client |-> NilClient, err |-> OtherError]
    ELSE IF password = Null \/ password = <<>> THEN [client |-> NilClient, err |-> OtherError]
    ELSE NewClientAt(WithScheme(address), username, password, timeoutEnv)

\* a variant: the path is appended as it is given
NewRequestKeepsPath(client, method, path, body) ==
    IF client = NilClient THEN [req |-> NoPayload, err |-> OtherError]
    ELSE [req |-> [method |-> method, url |-> client.BaseURL \o <<"/">> \o path,
                   auth |-> [username |-> client.Username, password |-> client.Password],
                   contentType |-> IF body # NoPayload THEN "application/json" ELSE ""],
          err |-> NoError]

\* Client.NewRequest(method, path, body); a nil body is NoPayload.
\* http.NewRequest parses the URL and refuses a "%" that does not start an
\* escape of two hex digits.
NewRequest(client, method, path, body) ==
    IF client = NilClient THEN [req |-> NoPayload, err |-> OtherError]
    ELSE IF \E i \in 1..Len(client.BaseURL \o <<"/">> \o TrimLeftSlash(path)) :
                /\ (client.BaseURL \o <<"/">> \o TrimLeftSlash(path))[i] = "%"
                /\ \/ i + 2 > Len(client.BaseURL \o <<"/">> \o TrimLeftSlash(path))
                   \/ \E j \in {i + 1, i + 2} :
                         (client.BaseURL \o <<"/">> \o TrimLeftSlash(path))[j]
                             \notin {"0", "1", "2", "3", "4", "5", "6", "7", "8", "9",
                                     "a", "b", "c", "d", "e", "f"}
    THEN [req |-> NoPayload, err |-> OtherError]
    ELSE [req |-> [method |-> method,
                   url |-> client.BaseURL \o <<"/">> \o TrimLeftSlash(path),
                   auth |-> [username |-> client.Username, password |-> client.Password],
                   contentType |-> IF body # NoPayload THEN "application/json" ELSE ""],
          err |-> NoError]

\* the probe's reading of the status: 401 is a wrong password, 403 a right one
ProbeAnswer(c, x) ==
    IF TransportFailed(x.resp) THEN Ret([x.c EXCEPT !.client = c.client], FALSE, OtherError)
    ELSE IF x.resp.status = 401 THEN Ret([x.c EXCEPT !.client = c.client], FALSE, NoError)
    ELSE IF x.resp.status = 403 THEN Ret([x.c EXCEPT !.client = c.client], TRUE, NoError)
    ELSE Ret([x.c EXCEPT !.client = c.client], FALSE, OtherError)

\* the probe is sent by a second client holding the user's own credentials
ProbeWith(c, plan, n, username) ==
    IF n.err # NoError THEN Ret(c, FALSE, OtherError)
    ELSE ProbeAnswer(c, Do([c EXCEPT !.client = n.client], plan, "GET", "/api/v1/users/",
                           <<>>, [username |-> username, fqdn |-> Null], NoPayload))

HasValidUserPassword(c, plan, username, password) ==
    ProbeWith(c, plan, NewClient(c.client.BaseURL, username, password, c.timeoutEnv),
              username)

GetDomainAccessAnswer(x) ==
    IF TransportFailed(x.resp) THEN Ret(x.c, ZeroGrant, OtherError)
    ELSE IF x.resp.status = 404 THEN Ret(x.c, ZeroGrant, ErrNotFound)
    ELSE DecodeListOrObject(x.c, x.resp, DecodeGrant, ZeroGrant)

\* the grant is looked up by the username of the user with the given id
GetDomainAccessOf(u, plan, domain) ==
    IF u.err # NoError THEN Ret(u.c, ZeroGrant, Wrap(u.err))
    ELSE GetDomainAccessAnswer(Do(u.c, plan, "GET", "/api/v1/domain-user-permissions/", <<>>,
                                  [username |-> u.val.Username, fqdn |-> domain], NoPayload))

GetDomainAccess(c, plan, userId, domain) ==
    GetDomainAccessOf(GetUserById(c, plan, userId), plan, domain)

GetDomainAnswer(x) ==
    IF TransportFailed(x.resp) THEN Ret(x.c, ZeroDomain, OtherError)
    ELSE IF x.resp.status = 404 THEN Ret(x.c, ZeroDomain, ErrNotFound)
    ELSE DecodeListOrObject(x.c, x.resp, DecodeDomain, ZeroDomain)

GetDomain(c, plan, fqdn) ==
    GetDomainAnswer(Do(c, plan, "GET", "/api/v1/domains/", <<>>,
                       [username |-> Null, fqdn |-> fqdn], NoPayload))

CreateDomainAnswer(x) ==
    IF TransportFailed(x.resp) THEN Ret(x.c, ZeroDomain, OtherError)
    ELSE IF CreateRefused(x.resp.status) THEN Ret(x.c, ZeroDomain, OtherError)
    ELSE DecodeObject(x.c, x.resp, DecodeDomain, ZeroDomain)

CreateDomain(c, plan, domain) ==
    CreateDomainAnswer(Do(c, plan, "POST", "/api/v1/domains/", <<>>, NoQuery,
                          [fqdn |-> domain.Fqdn, id |-> domain.ID]))

\* CreateDomainAccess, after GetDomain: does the lookup's error end the call
DomainLookupAborts(err) == err # NoError /\ err # ErrNotFound

\* a variant: the domain is created whether or not the lookup found it
DomainMissingOrFound(err) == err \in {ErrNotFound, NoError}

\* CreateDomainAccess, after GetDomain: is the domain to be created
DomainMissing(err) == err = ErrNotFound

\* a variant: the payload is built without the domain's id
GrantPayloadWithoutDomain(access, domainData) ==
    [user |-> access.UserID, domain |-> 0, access_level |-> access.AccessLevel]

\* the payload of the grant POST names the domain by its id
GrantPayload(access, domainData) ==
    [user |-> access.UserID, domain |-> domainData.ID, access_level |-> access.AccessLevel]

CreateDomainAccessAnswer(x) ==
    IF TransportFailed(x.resp) THEN Ret(x.c, ZeroGrant, OtherError)
    ELSE IF CreateRefused(x.resp.status) THEN Ret(x.c, ZeroGrant, OtherError)
    ELSE DecodeObject(x.c, x.resp, DecodeGrant, ZeroGrant)

\* CreateDomainAccess, third step: the grant POST, given the domain
CreateDomainAccessIn(dom, plan, access) ==
    IF dom.err # NoError THEN Ret(dom.c, ZeroGrant, OtherError)
    ELSE CreateDomainAccessAnswer(Do(dom.c, plan, "POST", "/api/v1/domain-user-permissions/",
                                     <<>>, NoQuery, GrantPayload(access, dom.val)))

\* CreateDomainAccess, second step: the domain found, or created when missing
CreateDomainAccessFor(d, plan, access) ==
    IF DomainLookupAborts(d.err) THEN Ret(d.c, ZeroGrant, OtherError)
    ELSE IF DomainMissing(d.err)
    THEN CreateDomainAccessIn(CreateDomain(d.c, plan, [Fqdn |-> access.Domain, ID |-> 0]),
                              plan, access)
    ELSE CreateDomainAccessIn(d, plan, access)

CreateDomainAccess(c, plan, access) ==
    CreateDomainAccessFor(GetDomain(c, plan, access.Domain), plan, access)

DeleteDomainAccess(c, plan, id) ==
    DeleteAnswer(Do(c, plan, "DELETE", "/api/v1/domain-user-permissions/{id}/", Itoa(id),
                    NoQuery, NoPayload))

(***************************************************************************)
(* The plugin framework's view of one reconciler call: the diagnostics it  *)
(* collects and the state it stores afterwards.  A handler that returns    *)
(* without setting the state leaves it as the framework initialised it:    *)
(* empty for Create and ImportState, the prior state for Read and Update.  *)
(***************************************************************************)
Error(summary) == [severity |-> "error", summary |-> summary]
Warning(summary) == [severity |-> "warning", summary |-> summary]
HasError(diags) == \E i \in 1..Len(diags) : diags[i].severity = "error"
HasDiag(diags, d) == \E i \in 1..Len(diags) : diags[i] = d

Out(c, state, diags) == [c |-> c, state |-> state, diags |-> diags]

Ctx(R, client) == [R |-> R, log |-> <<>>, client |-> client, timeoutEnv |-> "unset"]

(***************************************************************************)
(* UserResource (internal/provider/user_resource.go).                      *)
(***************************************************************************)
NoUser == [exists |-> FALSE, username |-> Null, password |-> Null, email |-> Null, id |-> Null]

UserModel(username, password, email, id) ==
    [exists |-> TRUE, username |-> username, password |-> password, email |-> email, id |-> id]

\* Create, the end: the read-back fills id and email
UserCreateReadBack(user, data) ==
    IF user.err # NoError THEN Out(user.c, NoUser, <<Error("Client Error")>>)
    ELSE Out(user.c,
             UserModel(data.username, ValueString(data.password), user.val.Email,
                       LastPathSegment(user.val.Url)),
             <<>>)

UserCreatePosted(created, plan, data) ==
    IF created.err # NoError THEN Out(created.c, NoUser, <<Error("Client Error")>>)
    ELSE UserCreateReadBack(GetUserByUsername(created.c, plan, ValueString(data.username)),
                            data)

\* a variant: the user is posted whether or not the lookup found one
UserCreateCheckedPostsAnyway(existing, plan, data) ==
    IF existing.err \notin {NoError, ErrNotFound}
    THEN Out(existing.c, NoUser, <<Error("Client Error")>>)
    ELSE UserCreatePosted(CreateUser(existing.c, plan,
                                     [username |-> ValueString(data.username),
                                      password |-> ValueString(data.password),
                                      email |-> ValueString(data.email),
                                      groups |-> <<>>]),
                          plan, data)

\* Create, after the conflict check
UserCreateChecked(existing, plan, data) ==
    IF existing.err = NoError THEN Out(existing.c, NoUser, <<Error("User Exists")>>)
    ELSE IF existing.err # ErrNotFound
    THEN Out(existing.c, NoUser, <<Error("Client Error")>>)
    ELSE UserCreatePosted(CreateUser(existing.c, plan,
                                     [username |-> ValueString(data.username),
                                      password |-> ValueString(data.password),
                                      email |-> ValueString(data.email),
                                      groups |-> <<>>]),
                          plan, data)

\* Create: data is the plan
UserResourceCreate(c, plan, data) ==
    IF c.client = NilClient THEN Out(c, NoUser, <<Error("Client Not Configured")>>)
    ELSE UserCreateChecked(GetUserByUsername(c, plan, ValueString(data.username)), plan, data)

\* Read, the lookup: by username whether or not the id is set
UserReadLookup(c, plan, data) ==
    IF ~ IsNull(data.id) /\ ValueString(data.id) # <<>>
    THEN GetUserByUsername(c, plan, ValueString(data.username))
    ELSE GetUserByUsername(c, plan, ValueString(data.username))

\* Read, the state to save once the probe has answered
UserReadResult(data, user, valid) ==
    UserModel(data.username,
              IF valid THEN data.password ELSE Null,
              user.Email,
              LastPathSegment(user.Url))

UserReadProbed(probe, user, data) ==
    IF probe.err # NoError THEN Out(probe.c, data, <<Error("Client Error")>>)
    ELSE Out(probe.c, UserReadResult(data, user.val, probe.val),
             IF probe.val THEN <<>> ELSE <<Warning("Invalid Password")>>)

\* a variant: a user that is not found is an error like any other
UserReadFoundNeverDrops(user, plan, data) ==
    IF user.err # NoError THEN Out(user.c, data, <<Error("Client Error")>>)
    ELSE UserReadProbed(HasValidUserPassword(user.c, plan, ValueString(data.username),
                                             ValueString(data.password)),
                        user, data)

UserReadFound(user, plan, data) ==
    IF user.err # NoError
    THEN IF user.err = ErrNotFound THEN Out(user.c, NoUser, <<>>)
         ELSE Out(user.c, data, <<Error("Client Error")>>)
    ELSE UserReadProbed(HasValidUserPassword(user.c, plan, ValueString(data.username),
                                             ValueString(data.password)),
                        user, data)

\* Read: data is the stored state
UserResourceRead(c, plan, data) ==
    IF c.client = NilClient THEN Out(c, data, <<Error("Client Not Configured")>>)
    ELSE UserReadFound(UserReadLookup(c, plan, data), plan, data)

UserUpdateFound(user, planned, data) ==
    IF user.err # NoError
    THEN IF user.err = ErrNotFound THEN Out(user.c, NoUser, <<>>)
         ELSE Out(user.c, data, <<Error("Client Error")>>)
    ELSE Out(user.c,
             UserModel(planned.username,
                       IF ~ IsNull(data.password) THEN data.password ELSE planned.password,
                       user.val.Email,
                       LastPathSegment(user.val.Url)),
             <<>>)

\* Update: planned is the plan, data the stored state
UserResourceUpdate(c, plan, planned, data) ==
    IF c.client = NilClient THEN Out(c, data, <<Error("Client Not Configured")>>)
    ELSE UserUpdateFound(GetUserByUsername(c, plan, ValueString(planned.username)),
                         planned, data)

\* Delete: the framework drops the state when Delete reports no error
UserDeleted(del, data) ==
    IF del.err # NoError THEN Out(del.c, data, <<Error("Client Error")>>)
    ELSE Out(del.c, NoUser, <<>>)

UserDeleteFound(user, plan, data) ==
    IF user.err # NoError
    THEN IF user.err = ErrNotFound THEN Out(user.c, NoUser, <<>>)
         ELSE Out(user.c, data, <<Error("Client Error")>>)
    ELSE UserDeleted(DeleteUserById(user.c, plan, LastPathSegment(user.val.Url)), data)

\* a variant: Delete always looks the user up by its username
UserResourceDeleteByName(c, plan, data) ==
    IF c.client = NilClient THEN Out(c, data, <<Error("Client Not Configured")>>)
    ELSE UserDeleteFound(GetUserByUsername(c, plan, ValueString(data.username)), plan, data)

UserResourceDelete(c, plan, data) ==
    IF c.client = NilClient THEN Out(c, data, <<Error("Client Not Configured")>>)
    ELSE IF ~ IsNull(data.id) /\ ValueString(data.id) # <<>>
    THEN UserDeleted(DeleteUserById(c, plan, ValueString(data.id)), data)
    ELSE UserDeleteFound(GetUserByUsername(c, plan, ValueString(data.username)), plan, data)

\* a variant: an id of more than two parts is taken, the rest ignored
UserImportedAtLeastTwo(c, parts) ==
    IF Len(parts) < 2 THEN Out(c, NoUser, <<Error("Invalid Import ID")>>)
    ELSE Out(c, UserModel(parts[1], parts[2], Null, Null), <<>>)

\* ImportState: "username:password"
UserImported(c, parts) ==
    IF Len(parts) # 2 THEN Out(c, NoUser, <<Error("Invalid Import ID")>>)
    ELSE Out(c, UserModel(parts[1], parts[2], Null, Null), <<>>)

UserResourceImportState(c, id) == UserImported(c, Split(id, ":"))

(***************************************************************************)
(* UserDomainAccessResource                                                *)
(* (internal/provider/user_domain_access_resource.go).                     *)
(***************************************************************************)
NoAccess == [exists |-> FALSE, user_id |-> Null, domain |-> Null, access_level |-> Null,
             id |-> Null, database_id |-> NullInt]

AccessModel(user_id, domain, access_level, id, database_id) ==
    [exists |-> TRUE, user_id |-> user_id, domain |-> domain,
     access_level |-> access_level, id |-> id, database_id |-> database_id]

\* a variant: the composite id written domain first
CompositeIdDomainFirst(data) ==
    ValueString(data.domain) \o <<":">> \o ValueString(data.user_id) \o <<":">>
        \o ValueString(data.access_level)

\* user_id + ":" + domain + ":" + access_level
CompositeId(data) ==
    ValueString(data.user_id) \o <<":">> \o ValueString(data.domain) \o <<":">>
        \o ValueString(data.access_level)

CreateData(data) ==
    [UserID |-> ValueString(data.user_id), Domain |-> ValueString(data.domain),
     AccessLevel |-> ValueString(data.access_level)]

\* Create, the state to save
AccessCreateResult(data, created) ==
    AccessModel(data.user_id, data.domain, data.access_level, CompositeId(data), created.ID)

AccessCreated(created, data) ==
    IF created.err # NoError THEN Out(created.c, NoAccess, <<Error("Client Error")>>)
    ELSE Out(created.c, AccessCreateResult(data, created.val), <<>>)

\* Create, the guard on the existing-grant lookup: err == nil && existing != nil
AccessAlreadyExists(err) == err = NoError

AccessCreateChecked(existing, plan, data) ==
    IF AccessAlreadyExists(existing.err)
    THEN Out(existing.c, NoAccess, <<Error("Domain Access Already Exists")>>)
    ELSE AccessCreated(CreateDomainAccess(existing.c, plan, CreateData(data)), data)

\* Create: data is the plan
AccessResourceCreate(c, plan, data) ==
    IF c.client = NilClient THEN Out(c, NoAccess, <<Error("Client Not Configured")>>)
    ELSE AccessCreateChecked(GetDomainAccess(c, plan, ValueString(data.user_id),
                                             ValueString(data.domain)),
                             plan, data)

\* a variant: Read refreshes the database id only
AccessReadResultKeepsLevel(data, found) == [data EXCEPT !.database_id = found.ID]

\* Read, the state to save when the grant was found
AccessReadResult(data, found) ==
    [data EXCEPT !.access_level = found.AccessLevel, !.database_id = found.ID]

AccessReadFound(found, data) ==
    IF found.err # NoError
    THEN IF ErrorsIsNotFound(found.err) THEN Out(found.c, NoAccess, <<>>)
         ELSE Out(found.c, data, <<Error("Client Error")>>)
    ELSE Out(found.c, AccessReadResult(data, found.val), <<>>)

\* Read: data is the stored state
AccessResourceRead(c, plan, data) ==
    IF c.client = NilClient THEN Out(c, data, <<Error("Client Not Configured")>>)
    ELSE IF IsNull(data.user_id) \/ IsNull(data.domain)
    THEN Out(c, data, <<Error("Invalid State")>>)
    ELSE AccessReadFound(GetDomainAccess(c, plan, ValueString(data.user_id),
                                         ValueString(data.domain)),
                         data)

\* Update, the state to save after the re-create
AccessUpdateResult(data, created) ==
    [data EXCEPT !.database_id = created.ID, !.id = CompositeId(data)]

AccessUpdateCreated(created, data, prior) ==
    IF created.err # NoError THEN Out(created.c, prior, <<Error("Client Error")>>)
    ELSE Out(created.c, AccessUpdateResult(data, created.val), <<>>)

\* Update, after the DELETE: only a transport error ends the call
AccessUpdateDeleted(del, plan, data, prior) ==
    IF del.err # NoError THEN Out(del.c, prior, <<Error("Client Error")>>)
    ELSE AccessUpdateCreated(CreateDomainAccess(del.c, plan, CreateData(data)), data, prior)

\* Update: data is the plan, prior the stored state
AccessResourceUpdate(c, plan, data, prior) ==
    IF c.client = NilClient THEN Out(c, prior, <<Error("Client Not Configured")>>)
    ELSE IF IsNull(data.user_id) \/ IsNull(data.domain)
    THEN Out(c, prior, <<Error("Invalid State")>>)
    ELSE IF data.database_id = NullInt \/ ValueInt64(data.database_id) = 0
    THEN Out(c, prior, <<Error("Invalid State")>>)
    ELSE AccessUpdateDeleted(DeleteDomainAccess(c, plan, ValueInt64(data.database_id)),
                             plan, data, prior)

AccessDeleted(del, data) ==
    IF del.err # NoError THEN Out(del.c, data, <<Error("Client Error")>>)
    ELSE Out(del.c, NoAccess, <<>>)

\* Delete: data is the stored state
AccessResourceDelete(c, plan, data) ==
    IF c.client = NilClient THEN Out(c, data, <<Error("Client Not Configured")>>)
    ELSE IF data.database_id = NullInt \/ ValueInt64(data.database_id) = 0
    THEN Out(c, data, <<Error("Invalid State")>>)
    ELSE AccessDeleted(DeleteDomainAccess(c, plan, ValueInt64(data.database_id)), data)

\* ImportState: "user_id:domain:access_level"
AccessImported(c, id, parts) ==
    IF Len(parts) # 3 THEN Out(c, NoAccess, <<Error("Invalid Import ID")>>)
    ELSE Out(c, AccessModel(parts[1], parts[2], parts[3], id, NullInt), <<>>)

AccessResourceImportState(c, id) == AccessImported(c, id, Split(id, ":"))

(***************************************************************************)
(* The state machine.  Each reconciler call is one step: it runs the whole *)
(* handler against the remote service under one answer plan, stores the    *)
(* resulting state and records the call in last.  The remote service also  *)
(* changes behind the provider's back (drift).                             *)
(***************************************************************************)
AdminClient == MkClient(HttpsPrefix \o <<"x">>, AdminCreds.username, AdminCreds.password)

Usernames == {<<"u">>}
Passwords == {<<"p">>, <<"q">>}
Emails == {<<"e">>, <<"f">>}
UserImportIds == {<<"u", ":", "p">>, <<"u", ":", "q">>, <<"u">>, <<"u", ":">>,
                  <<"u", ":", "p", ":", "q">>}

Idle == [op |-> "none", input |-> <<>>, prior |-> <<>>, log |-> <<>>, diags |-> <<>>]

Called(op, input, prior, o) ==
    [op |-> op, input |-> input, prior |-> prior, log |-> o.c.log, diags |-> o.diags]

ConfiguredHost ==
    [providerData |-> AdminClient, userClient |-> AdminClient, accessClient |-> AdminClient,
     lookup |-> <<>>, diags |-> <<>>]

EmptyRemote ==
    [users |-> {}, domains |-> {}, grants |-> {}, nextUser |-> 1, nextDomain |-> 1,
     nextGrant |-> 1]

\* the call's effects: the remote as the call left it, the state it stored
UserCalled(op, input, o) ==
    /\ remote' = o.c.R
    /\ userState' = o.state
    /\ last' = Called(op, input, userState, o)
    /\ UNCHANGED <<accessState, host>>

InitUser ==
    /\ remote = EmptyRemote
    /\ userState = NoUser
    /\ accessState = NoAccess
    /\ last = Idle
    /\ host = ConfiguredHost

UserCreate ==
    /\ ~ userState.exists
    /\ remote.nextUser <= MaxUserId
    /\ \E username \in Usernames, password \in Passwords, email \in Emails \cup {Null},
          plan \in AnswerPlans[3] :
          LET data == UserModel(username, password, email, Null)
              o == UserResourceCreate(Ctx(remote, host.userClient), plan, data)
          IN  UserCalled("UserCreate", data, o)

UserRead ==
    /\ userState.exists
    /\ \E plan \in AnswerPlans[2] :
          LET o == UserResourceRead(Ctx(remote, host.userClient), plan, userState)
          IN  UserCalled("UserRead", userState, o)

\* every attribute but id requires replacement, so an Update is planned only
\* with the stored values (a null stored password is planned from the configuration)
UserUpdate ==
    /\ userState.exists
    /\ \E password \in Passwords, plan \in AnswerPlans[1] :
          LET planned == [userState EXCEPT
                              !.password = IF IsNull(@) THEN password ELSE @]
              o == UserResourceUpdate(Ctx(remote, host.userClient), plan, planned, userState)
          IN  UserCalled("UserUpdate", planned, o)

UserDelete ==
    /\ userState.exists
    /\ \E plan \in AnswerPlans[2] :
          LET o == UserResourceDelete(Ctx(remote, host.userClient), plan, userState)
          IN  UserCalled("UserDelete", userState, o)

UserImport ==
    /\ ~ userState.exists
    /\ \E id \in UserImportIds :
          LET o == UserResourceImportState(Ctx(remote, host.userClient), id)
          IN  UserCalled("UserImport", id, o)

\* drift: the service's users change without the provider
RemoteCreateUser ==
    /\ remote.nextUser <= MaxUserId
    /\ \E username \in Usernames, password \in Passwords, email \in Emails, admin \in BOOLEAN :
          /\ UsersNamed(remote, username) = {}
          /\ remote' = [remote EXCEPT
                            !.users = @ \cup {[id |-> remote.nextUser, username |-> username,
                                               email |-> email, password |-> password,
                                               admin |-> admin]},
                            !.nextUser = @ + 1]
    /\ last' = Idle
    /\ UNCHANGED <<userState, accessState, host>>

RemoteChangeUser ==
    /\ \E u \in remote.users, password \in Passwords, email \in Emails :
          /\ <<password, email>> # <<u.password, u.email>>
          /\ remote' = [remote EXCEPT
                            !.users = (@ \ {u})
                                \cup {[u EXCEPT !.password = password, !.email = email]}]
    /\ last' = Idle
    /\ UNCHANGED <<userState, accessState, host>>

RemoteDeleteUser ==
    /\ \E u \in remote.users :
          remote' = [remote EXCEPT !.users = @ \ {u},
                                   !.grants = {g \in @ : g.user # u.id}]
    /\ last' = Idle
    /\ UNCHANGED <<userState, accessState, host>>

NextUser ==
    \/ UserCreate
    \/ UserRead
    \/ UserUpdate
    \/ UserDelete
    \/ UserImport
    \/ RemoteCreateUser
    \/ RemoteChangeUser
    \/ RemoteDeleteUser

SpecUser == InitUser /\ [][NextUser]_vars


(***************************************************************************)
(* The domain-access reconciler against the remote service.                *)
(***************************************************************************)
Domains == {<<"d">>, <<"d", ":", "e">>}
AccessLevels == {<<"d", "o", "m", "a", "i", "n">>, <<"s", "u", "b", "d", "o", "m", "a", "i", "n">>}

AccessPlans ==
    {AccessModel(Itoa(i), d, l, Null, NullInt) :
        i \in 1..MaxAccessUsers, d \in Domains, l \in AccessLevels}

AccessImportIds ==
    {CompositeId(data) : data \in AccessPlans} \cup {<<"1">>, <<"1", ":", "d">>}

InitAccess ==
    /\ remote = [EmptyRemote EXCEPT
                     !.users = {[id |-> i, username |-> <<"u">> \o Itoa(i), email |-> <<"e">>,
                                 password |-> <<"p">>, admin |-> FALSE] :
                                   i \in 1..MaxAccessUsers},
                                    !.nextUser = MaxAccessUsers + 1]
    /\ userState = NoUser
    /\ accessState = NoAccess
    /\ last = Idle
    /\ host = ConfiguredHost

AccessCalled(op, input, o) ==
    /\ remote' = o.c.R
    /\ accessState' = o.state
    /\ last' = Called(op, input, accessState, o)
    /\ UNCHANGED <<userState, host>>

\* the remote can still hand out the ids a grant creation for fqdn may need
CanCreateGrant(fqdn) ==
    /\ remote.nextGrant <= MaxGrantId
    /\ DomainsNamed(remote, fqdn) # {} \/ remote.nextDomain <= MaxDomainId

AccessCreate ==
    /\ ~ accessState.exists
    /\ \E data \in AccessPlans, plan \in AnswerPlans[5] :
          /\ CanCreateGrant(data.domain)
          /\ AccessCalled("AccessCreate", data,
                          AccessResourceCreate(Ctx(remote, host.accessClient), plan, data))

AccessRead ==
    /\ accessState.exists
    /\ \E plan \in AnswerPlans[2] :
          AccessCalled("AccessRead", accessState,
                       AccessResourceRead(Ctx(remote, host.accessClient), plan, accessState))

\* the plan of an Update carries id and database_id over from the stored
\* state; the access level is the one configured
AccessUpdate ==
    /\ accessState.exists
    /\ CanCreateGrant(ValueString(accessState.domain))
    /\ \E level \in AccessLevels, plan \in AnswerPlans[4] :
          AccessCalled("AccessUpdate", [accessState EXCEPT !.access_level = level],
                       AccessResourceUpdate(Ctx(remote, host.accessClient), plan,
                                            [accessState EXCEPT !.access_level = level],
                                            accessState))

AccessDelete ==
    /\ accessState.exists
    /\ \E plan \in AnswerPlans[1] :
          AccessCalled("AccessDelete", accessState,
                       AccessResourceDelete(Ctx(remote, host.accessClient), plan, accessState))

AccessImport ==
    /\ ~ accessState.exists
    /\ \E id \in AccessImportIds :
          AccessCalled("AccessImport", id,
                       AccessResourceImportState(Ctx(remote, host.accessClient), id))

\* drift: grants change without the provider
RemoteSetAccessLevel ==
    /\ \E g \in remote.grants, level \in AccessLevels :
          /\ level # g.access_level
          /\ remote' = [remote EXCEPT
                            !.grants = (@ \ {g}) \cup {[g EXCEPT !.access_level = level]}]
    /\ last' = Idle
    /\ UNCHANGED <<userState, accessState, host>>

RemoteDeleteGrant ==
    /\ \E g \in remote.grants : remote' = [remote EXCEPT !.grants = @ \ {g}]
    /\ last' = Idle
    /\ UNCHANGED <<userState, accessState, host>>

NextAccess ==
    \/ AccessCreate
    \/ AccessRead
    \/ AccessUpdate
    \/ AccessDelete
    \/ AccessImport
    \/ RemoteSetAccessLevel
    \/ RemoteDeleteGrant
    \/ RemoteDeleteUser

SpecAccess == InitAccess /\ [][NextAccess]_vars


(***************************************************************************)
(* The provider (internal/provider/provider.go) and the plugin host: the   *)
(* host configures the provider, hands its client to each resource's       *)
(* Configure, and resolves the resource types a configuration declares     *)
(* against the constructors the provider registers.                        *)
(***************************************************************************)
ProviderTypeName == "legocharm"

\* legocharmProvider.Resources: the constructors the provider registers
Resources == <<"NewUserResource">>

\* UserResource.Metadata, UserDomainAccessResource.Metadata
UserResourceMetadata(providerTypeName) == providerTypeName \o "_user"
AccessResourceMetadata(providerTypeName) == providerTypeName \o "_user_domain_access"

\* the type name of the resource a constructor makes: NewUserResource makes a
\* UserResource, NewUserDomainAccessResource a UserDomainAccessResource
Metadata(constructor, providerTypeName) ==
    CASE constructor = "NewUserResource" -> UserResourceMetadata(providerTypeName)
      [] constructor = "NewUserDomainAccessResource" -> AccessResourceMetadata(providerTypeName)

\* the resource types the host can serve: one per registered constructor
ServedTypes(constructors) ==
    {Metadata(constructors[i], ProviderTypeName) : i \in 1..Len(constructors)}

\* the resource types the shipped example configurations declare
ExampleTypes == {"legocharm_user", "legocharm_user_domain_access"}

NoLookup == [type |-> "none", served |-> TRUE]

\* the value an attribute takes: the configuration's unless null, else the environment's
Resolve(configured, fromEnv) == IF ~ IsNull(configured) THEN ValueString(configured) ELSE fromEnv

NotSet(address, username, password) ==
    (IF address = <<>> THEN <<Error("LegoCharm API Address Not Set")>> ELSE <<>>)
    \o (IF username = <<>> THEN <<Error("LegoCharm API Username Not Set")>> ELSE <<>>)
    \o (IF password = <<>> THEN <<Error("LegoCharm API Password Not Set")>> ELSE <<>>)

ProviderClient(n) ==
    IF n.err # NoError
    THEN [data |-> NilClient, diags |-> <<Error("Unable to Create LegoCharm API Client")>>]
    ELSE [data |-> n.client, diags |-> <<>>]

ProviderConfigureWith(address, username, password, timeoutEnv) ==
    IF HasError(NotSet(address, username, password))
    THEN [data |-> NilClient, diags |-> NotSet(address, username, password)]
    ELSE ProviderClient(NewClient(address, username, password, timeoutEnv))

\* legocharmProvider.Configure: the data handed to the resources afterwards
ProviderConfigure(config, env) ==
    ProviderConfigureWith(Resolve(config.address, env.address),
                          Resolve(config.username, env.username),
                          Resolve(config.password, env.password), env.timeout)

\* UserResource.Configure and UserDomainAccessResource.Configure: providerData
\* is nil (NilClient), a *Client, or a value of another type (NotAClient)
NotAClient == [other |-> TRUE]

\* a variant: any provider data that is not nil is stored as the client
ResourceConfigureStoresAnything(client, providerData) ==
    IF providerData = NilClient THEN [client |-> client, diags |-> <<>>]
    ELSE [client |-> providerData, diags |-> <<>>]

ResourceConfigure(client, providerData) ==
    IF providerData = NilClient THEN [client |-> client, diags |-> <<>>]
    ELSE IF providerData = NotAClient
    THEN [client |-> client, diags |-> <<Error("Unexpected Resource Configure Type")>>]
    ELSE [client |-> providerData, diags |-> <<>>]

ProviderConfigs ==
    [address : {Null, <<>>, <<"x">>, HttpPrefix \o <<"x", "/">>,
                HttpsPrefix \o <<"x", "/", "/">>}, username : {Null, <<"a">>},
     password : {Null, <<"s">>}]

ProviderEnvs ==
    [address : {<<>>, <<"x">>}, username : {<<>>}, password : {<<>>, <<"s">>},
     timeout : {"unset", "invalid"}]

InitProvider ==
    /\ remote = EmptyRemote
    /\ userState = NoUser
    /\ accessState = NoAccess
    /\ last = Idle
    /\ host = [providerData |-> NilClient, userClient |-> NilClient,
               accessClient |-> NilClient, lookup |-> NoLookup, diags |-> <<>>]

\* the host configures the provider once, before it does anything else
HostConfiguresProvider ==
    /\ last = Idle
    /\ host.providerData = NilClient /\ host.diags = <<>> /\ host.lookup = NoLookup
    /\ \E config \in ProviderConfigs, env \in ProviderEnvs :
          host' = [host EXCEPT !.providerData = ProviderConfigure(config, env).data,
                               !.diags = ProviderConfigure(config, env).diags]
    /\ UNCHANGED <<remote, userState, accessState, last>>

\* the host passes nil, the provider's client or a value of another type
HostConfiguresUserResource ==
    /\ \E pd \in {NilClient, NotAClient, host.providerData} :
          /\ host' = [host EXCEPT !.userClient = ResourceConfigure(host.userClient, pd).client,
                                  !.diags = ResourceConfigure(host.userClient, pd).diags]
          /\ last' = [op |-> "UserConfigure", input |-> pd, prior |-> host.userClient,
                      log |-> <<>>, diags |-> ResourceConfigure(host.userClient, pd).diags]
    /\ UNCHANGED <<remote, userState, accessState>>

HostConfiguresAccessResource ==
    /\ \E pd \in {NilClient, NotAClient, host.providerData} :
          /\ host' = [host EXCEPT !.accessClient = ResourceConfigure(host.accessClient, pd).client,
                                  !.diags = ResourceConfigure(host.accessClient, pd).diags]
          /\ last' = [op |-> "AccessConfigure", input |-> pd, prior |-> host.accessClient,
                      log |-> <<>>, diags |-> ResourceConfigure(host.accessClient, pd).diags]
    /\ UNCHANGED <<remote, userState, accessState>>

\* the host looks a declared resource type up among the registered ones
HostResolvesType ==
    /\ \E type \in ExampleTypes :
          host' = [host EXCEPT !.lookup = [type |-> type,
                                           served |-> type \in ServedTypes(Resources)],
                               !.diags = <<>>]
    /\ UNCHANGED <<remote, userState, accessState, last>>

\* the host asks a resource of either kind for its type name
HostAsksMetadata ==
    /\ \E constructor \in {"NewUserResource", "NewUserDomainAccessResource"} :
          last' = [op |-> "Metadata", input |-> constructor, prior |-> <<>>, log |-> <<>>,
                   diags |-> <<>>, typeName |-> Metadata(constructor, ProviderTypeName)]
    /\ UNCHANGED <<remote, userState, accessState, host>>

\* the reconciler calls the host makes on a resource whose Configure has not
\* stored a client (SpecUser and SpecAccess run them with a client)
UserCallsBeforeConfigure ==
    /\ host.userClient = NilClient
    /\ UserCreate \/ UserRead \/ UserUpdate \/ UserDelete \/ UserImport

AccessCallsBeforeConfigure ==
    /\ host.accessClient = NilClient
    /\ AccessCreate \/ AccessRead \/ AccessUpdate \/ AccessDelete \/ AccessImport

NextProvider ==
    \/ HostConfiguresProvider
    \/ HostConfiguresUserResource
    \/ HostConfiguresAccessResource
    \/ HostResolvesType
    \/ HostAsksMetadata
    \/ UserCallsBeforeConfigure
    \/ AccessCallsBeforeConfigure

SpecProvider == InitProvider /\ [][NextProvider]_vars


(***************************************************************************)
(* The client package called on its own, as its tests call it: NewClient   *)
(* on an address and credentials, NewRequest on the client so built (or on *)
(* a nil client), LastPathSegment on a path.  Each behaviour makes the     *)
(* calls once.                                                             *)
(***************************************************************************)
CallNewClient ==
    /\ last = Idle
    /\ \E scheme \in {<<>>, HttpPrefix, HttpsPrefix},
          rest \in UNION {[1..n -> {"x", "/"}] : n \in 0..MaxLen},
          nilAddress \in BOOLEAN,
          username \in {Null, <<>>, <<"a">>}, password \in {Null, <<>>, <<"s">>},
          timeoutEnv \in {"unset", "valid", "invalid"} :
          LET address == IF nilAddress THEN Null ELSE scheme \o rest
          IN  /\ nilAddress => scheme = <<>> /\ rest = <<>>
              /\ last' = [op |-> "NewClient",
                          input |-> [address |-> address, username |-> username,
                                     password |-> password, timeoutEnv |-> timeoutEnv],
                          result |-> NewClient(address, username, password, timeoutEnv),
                          prior |-> <<>>, log |-> <<>>, diags |-> <<>>]
              /\ host' = [host EXCEPT !.providerData =
                              NewClient(address, username, password, timeoutEnv).client]
    /\ UNCHANGED <<remote, userState, accessState>>

\* on the client NewClient returned, or on a nil client when none was made
CallNewRequest ==
    /\ last.op \in {"none", "NewClient"}
    /\ \E method \in {"GET", "POST", "DELETE"},
          path \in UNION {[1..n -> {"/", "a", "%"}] : n \in 0..MaxLen},
          body \in {NoPayload, [fqdn |-> <<"d">>, id |-> 0]} :
          last' = [op |-> "NewRequest",
                   input |-> [client |-> host.providerData, method |-> method,
                              path |-> path, body |-> body],
                   result |-> NewRequest(host.providerData, method, path, body),
                   prior |-> <<>>, log |-> <<>>, diags |-> <<>>]
    /\ UNCHANGED <<remote, userState, accessState, host>>

CallLastPathSegment ==
    /\ last = Idle
    /\ \E u \in UNION {[1..n -> {"u", "1", "/"}] : n \in 0..MaxLen} :
          last' = [op |-> "LastPathSegment", input |-> u, result |-> LastPathSegment(u),
                   prior |-> <<>>, log |-> <<>>, diags |-> <<>>]
    /\ UNCHANGED <<remote, userState, accessState, host>>

NextClient ==
    \/ CallNewClient
    \/ CallNewRequest
    \/ CallLastPathSegment

SpecClient == InitProvider /\ [][NextClient]_vars


(***************************************************************************)
(* Reading the last call's exchanges.                                      *)
(***************************************************************************)
UsersPath == "/api/v1/users/"
UserPath == "/api/v1/users/{id}/"
GrantsPath == "/api/v1/domain-user-permissions/"
GrantPath == "/api/v1/domain-user-permissions/{id}/"
DomainsPath == "/api/v1/domains/"

Log == last.log
Sent(method, ep) == {i \in 1..Len(Log) : Log[i].req.method = method /\ Log[i].req.ep = ep}

\* the answer says "not found": HTTP 404, or an empty list
NotFoundAnswer(r) == r.status = 404 \/ (r.status # 0 /\ r.kind = "list" /\ r.items = <<>>)
\* the answer carries an entity for the "array first, then object" decode
CarriesEntity(r) ==
    /\ r.status \notin {0, 404}
    /\ (r.kind = "list" /\ r.items # <<>>) \/ r.kind = "object"
\* the answer is an error of the lookup: no transport, or a body that is no JSON
LookupFailed(r) == ~ NotFoundAnswer(r) /\ ~ CarriesEntity(r)
\* a create helper takes the answer as success
CreateSucceeded(r) == r.status >= 200 /\ r.status < 400 /\ r.kind = "object"
Answered2xx(r) == r.status >= 200 /\ r.status <= 299

NoDiagnostics == last.diags = <<>>
Failed == HasError(last.diags)

CreatesGrant == last.op \in {"AccessCreate", "AccessUpdate"}
RequestedFqdn == ValueString(last.input.domain)

(***************************************************************************)
(* C1.  CreateDomainAccess is a two-step create.  Whenever a grant is      *)
(* POSTed to /api/v1/domain-user-permissions/, the lookup of the domain    *)
(* for the requested FQDN was sent before it; the domain was found by that *)
(* lookup or else created by a POST to /api/v1/domains/ sent between the   *)
(* two; the payload's "domain" is the id the lookup or the creation        *)
(* answered with (an id, never the FQDN), which is the id of the remote    *)
(* domain of that FQDN whenever the service answered 2xx; and no domain    *)
(* request follows the grant POST.                                         *)
(***************************************************************************)
C1_DomainObtainedBefore(i) ==
    \E j \in Sent("GET", DomainsPath) :
        /\ j < i
        /\ Log[j].req.query.fqdn = RequestedFqdn
        /\ IF CarriesEntity(Log[j].resp)
           THEN /\ Sent("POST", DomainsPath) = {}
                /\ Log[i].req.payload.domain = Field(Log[j].resp.items[1], "id", 0)
                /\ Answered2xx(Log[j].resp) =>
                      \E d \in remote.domains :
                          d.fqdn = RequestedFqdn /\ d.id = Log[i].req.payload.domain
           ELSE \E k \in Sent("POST", DomainsPath) :
                    /\ j < k /\ k < i
                    /\ Log[k].req.payload.fqdn = RequestedFqdn
                    /\ CreateSucceeded(Log[k].resp)
                    /\ Log[i].req.payload.domain = Field(Log[k].resp.items[1], "id", 0)
                    /\ Answered2xx(Log[k].resp) =>
                          \E d \in remote.domains :
                              d.fqdn = RequestedFqdn /\ d.id = Log[i].req.payload.domain

C1_TwoStepCreate ==
    \A i \in Sent("POST", GrantsPath) :
        /\ CreatesGrant
        /\ C1_DomainObtainedBefore(i)
        /\ Log[i].req.payload.domain \in Int
        /\ \A k \in Sent("GET", DomainsPath) \cup Sent("POST", DomainsPath) : k < i

\* a Create that found no domain, created it and then created the grant
C1_Witness ==
    /\ last.op = "AccessCreate"
    /\ accessState.exists
    /\ Sent("POST", DomainsPath) # {}
    /\ Sent("POST", GrantsPath) # {}

(***************************************************************************)
(* C2.  CreateDomainAccess creates the domain if and only if it does not   *)
(* exist: a domain is POSTed exactly when the domain lookup answered "not  *)
(* found" (HTTP 404 or an empty list), and then once, after the lookup;    *)
(* when the lookup failed otherwise, neither a domain nor a grant is       *)
(* POSTed; and the remote never holds two domains with the same FQDN.      *)
(***************************************************************************)
C2_CreatesDomainIffMissing ==
    /\ Sent("POST", DomainsPath) # {}
          <=> \E j \in Sent("GET", DomainsPath) : NotFoundAnswer(Log[j].resp)
    /\ Cardinality(Sent("POST", DomainsPath)) <= 1
    /\ \A k \in Sent("POST", DomainsPath) : \E j \in Sent("GET", DomainsPath) : j < k
    /\ \A j \in Sent("GET", DomainsPath) :
          LookupFailed(Log[j].resp) =>
              Sent("POST", DomainsPath) \cup Sent("POST", GrantsPath) = {}
    /\ \A d1, d2 \in remote.domains : d1.fqdn = d2.fqdn => d1 = d2

\* a grant created for a domain that already existed: no domain POST
C2_Witness ==
    /\ CreatesGrant
    /\ \E j \in Sent("GET", DomainsPath) : CarriesEntity(Log[j].resp)
    /\ Sent("POST", GrantsPath) # {}
    /\ Sent("POST", DomainsPath) = {}
    /\ ~ Failed


(***************************************************************************)
(* The grants the remote holds for the user id and domain of a state.      *)
(***************************************************************************)
RemoteGrantsOf(data) ==
    {g \in remote.grants :
        /\ Itoa(g.user) = ValueString(data.user_id)
        /\ \E d \in remote.domains : d.id = g.domain /\ d.fqdn = ValueString(data.domain)}

Removed == accessState = NoAccess
\* the lookup of a grant: the owning user by id, then the grants by name
UserAnswer == Log[1].resp
GrantsAnswer == Log[2].resp
UserAnswered == UserAnswer.status \notin {0, 404} /\ UserAnswer.kind = "object"

(***************************************************************************)
(* C4.  Read of a grant removes the resource from state, without a         *)
(* diagnostic, when the owning user's id is unknown to the service (the    *)
(* lookup by id answers 404) and when the grant is absent (the grant       *)
(* lookup answers 404 or an empty list); so a Read the service answers     *)
(* after the user was deleted remotely removes the grant from state.  Any  *)
(* other error of either lookup yields "Client Error" and leaves the state *)
(* as it was.                                                              *)
(***************************************************************************)
C4_ReadDropsVanishedGrant ==
    last.op = "AccessRead" =>
        /\ Log # <<>>
        /\ Log[1].req.method = "GET" /\ Log[1].req.ep = UserPath
        /\ Log[1].req.id = ValueString(last.prior.user_id)
        /\ UserAnswer.status = 404 => Removed /\ NoDiagnostics /\ Len(Log) = 1
        /\ (UserAnswer.status # 404 /\ ~ UserAnswered) =>
              /\ HasDiag(last.diags, Error("Client Error"))
              /\ accessState = last.prior
              /\ Len(Log) = 1
        /\ UserAnswered =>
              /\ Len(Log) = 2
              /\ Log[2].req.method = "GET" /\ Log[2].req.ep = GrantsPath
              /\ Log[2].req.query.fqdn = ValueString(last.prior.domain)
              /\ NotFoundAnswer(GrantsAnswer) => Removed /\ NoDiagnostics
              /\ LookupFailed(GrantsAnswer) =>
                    /\ HasDiag(last.diags, Error("Client Error"))
                    /\ accessState = last.prior
        /\ ((Answered2xx(UserAnswer) \/ UserAnswer.status = 404)
                /\ UsersWithId(remote, ValueString(last.prior.user_id)) = {}) =>
              Removed /\ NoDiagnostics

\* the owning user was deleted remotely, and the Read dropped the grant
C4_Witness ==
    /\ last.op = "AccessRead"
    /\ last.prior.exists
    /\ UserAnswer.status = 404
    /\ UsersWithId(remote, ValueString(last.prior.user_id)) = {}
    /\ Removed

C7_UpdateReplacesGrant ==
    (last.op = "AccessUpdate" /\ ~ Failed) =>
        /\ \E i \in Sent("DELETE", GrantPath), j \in Sent("POST", GrantsPath) :
              /\ i < j
              /\ Log[i].req.id = Itoa(last.prior.database_id)
              /\ accessState.database_id = Field(Log[j].resp.items[1], "id", 0)
        /\ accessState.user_id = last.input.user_id
        /\ accessState.domain = last.input.domain
        /\ accessState.access_level = last.input.access_level
        /\ Cardinality(RemoteGrantsOf(last.input)) = 1
        /\ \A g \in RemoteGrantsOf(last.input) :
              g.access_level = ValueString(last.input.access_level)


(***************************************************************************)
(* Import of a grant, applied to an id.                                    *)
(***************************************************************************)
Colons(s) == {i \in 1..Len(s) : s[i] = ":"}
ImportOf(id) == AccessResourceImportState(Ctx(remote, host.accessClient), id)
ImportRestores(data) ==
    /\ ~ HasError(ImportOf(data.id).diags)
    /\ ImportOf(data.id).state = [data EXCEPT !.database_id = NullInt]
\* an id that does not split on ":" into three parts is refused
C9_RefusesOtherIds ==
    (last.op = "AccessImport" /\ Cardinality(Colons(last.input)) # 2) =>
        /\ HasDiag(last.diags, Error("Invalid Import ID"))
        /\ accessState = NoAccess
SavedByCreate == last.op = "AccessCreate" /\ ~ Failed /\ accessState.exists

(***************************************************************************)
(* C9, as claimed.  For every state saved by Create, ImportState applied   *)
(* to that state's id yields the same user_id, domain, access_level and id *)
(* (database_id unset); an import id that does not split on ":" into       *)
(* exactly three parts yields "Invalid Import ID" and no state.            *)
(***************************************************************************)
C9_ImportRoundTrip ==
    /\ SavedByCreate => ImportRestores(accessState)
    /\ C9_RefusesOtherIds

(***************************************************************************)
(* C9, amended.  For every state saved by Create whose user_id, domain and *)
(* access_level contain no ":", ImportState applied to that state's id     *)
(* yields the same user_id, domain, access_level and id (database_id       *)
(* unset); an import id that does not split on ":" into exactly three      *)
(* parts yields "Invalid Import ID" and no state.                          *)
(***************************************************************************)
C9_ImportRoundTripWithoutColons ==
    /\ (/\ SavedByCreate
        /\ Colons(accessState.user_id) = {}
        /\ Colons(accessState.domain) = {}
        /\ Colons(accessState.access_level) = {}) => ImportRestores(accessState)
    /\ C9_RefusesOtherIds

\* Create saved a state without ":" in its fields, and its id imports
C9_Witness ==
    /\ SavedByCreate
    /\ Colons(accessState.domain) = {}
    /\ ImportOf(accessState.id).state.exists


(***************************************************************************)
(* Read of a user: the lookup by username, then the password probe.        *)
(***************************************************************************)
LookupAnswer == Log[1].resp
ProbeAnswered == Log[2].resp
LookupSent ==
    /\ Log # <<>>
    /\ Log[1].req.method = "GET" /\ Log[1].req.ep = UsersPath
    /\ Log[1].req.query.username = ValueString(last.prior.username)
    /\ Log[1].req.auth = AdminCreds
StoredCredentials ==
    [username |-> ValueString(last.prior.username),
     password |-> ValueString(last.prior.password)]
ProbeSent ==
    /\ Len(Log) = 2
    /\ Log[2].req.method = "GET" /\ Log[2].req.ep = UsersPath
    /\ Log[2].req.auth = StoredCredentials

(***************************************************************************)
(* C3.  Read of a user looks the stored username up; when the lookup       *)
(* answers "not found" (HTTP 404 or an empty list), Read removes the       *)
(* resource from state, adds no diagnostic and sends no password probe;    *)
(* when the lookup fails otherwise, Read adds "Client Error", sends no     *)
(* probe and leaves the stored state as it was.                            *)
(***************************************************************************)
C3_ReadDropsVanishedUser ==
    last.op = "UserRead" =>
        /\ LookupSent
        /\ NotFoundAnswer(LookupAnswer) =>
              userState = NoUser /\ NoDiagnostics /\ Len(Log) = 1
        /\ LookupFailed(LookupAnswer) =>
              /\ HasDiag(last.diags, Error("Client Error"))
              /\ userState = last.prior
              /\ Len(Log) = 1

\* the user was deleted remotely, and the Read dropped it from state
C3_Witness ==
    /\ last.op = "UserRead"
    /\ last.prior.exists
    /\ NotFoundAnswer(LookupAnswer)
    /\ UsersNamed(remote, ValueString(last.prior.username)) = {}
    /\ userState = NoUser

(***************************************************************************)
(* C5.  When the user exists remotely and the service answers the lookup   *)
(* with it, Read probes the service with the stored username and password; *)
(* a probe the service rejects (401) makes Read add the warning "Invalid   *)
(* Password", no error, and save the state with password null and id and   *)
(* email refreshed, so that a configured password differs from the state;  *)
(* a probe the service accepts leaves the saved password as stored.        *)
(***************************************************************************)
C5_ReadProbesStoredPassword ==
    (/\ last.op = "UserRead"
     /\ UsersNamed(remote, ValueString(last.prior.username)) # {}
     /\ LookupAnswer.status = 200) =>
        /\ ProbeSent
        /\ ProbeAnswered.status = 401 =>
              /\ HasDiag(last.diags, Warning("Invalid Password"))
              /\ ~ Failed
              /\ userState.exists
              /\ userState.password = Null
              /\ \A p \in Passwords : p # userState.password
              /\ \E u \in UsersNamed(remote, ValueString(last.prior.username)) :
                    userState.id = Itoa(u.id) /\ userState.email = u.email
        /\ ProbeAnswered.status \in {200, 403} =>
              userState.exists /\ userState.password = last.prior.password

C10_BothResourcesRegistered ==
    host.lookup.type \in ExampleTypes =>
        /\ host.lookup.served
        /\ {"NewUserResource", "NewUserDomainAccessResource"}
              \subseteq {Resources[i] : i \in 1..Len(Resources)}



(***************************************************************************)
(* C11.  Metadata of the domain-access resource, asked with the provider   *)
(* type name "legocharm", answers the type name "legocharm_domain_access". *)
(***************************************************************************)
C11_AccessTypeName ==
    (last.op = "Metadata" /\ last.input = "NewUserDomainAccessResource") =>
        last.typeName = "legocharm_domain_access"


(***************************************************************************)
(* Configure of a resource, and the calls made while its client is nil.    *)
(***************************************************************************)
ConfiguredClient ==
    IF last.op = "UserConfigure" THEN host.userClient ELSE host.accessClient
UserCalls == {"UserCreate", "UserRead", "UserUpdate", "UserDelete"}
AccessCalls == {"AccessCreate", "AccessRead", "AccessUpdate", "AccessDelete"}
NotConfigured ==
    /\ HasDiag(last.diags, Error("Client Not Configured"))
    /\ Log = <<>>
    /\ remote = EmptyRemote

(***************************************************************************)
(* C17.  Configure of either resource, given nil provider data, reports no *)
(* error and leaves the client as it was (nil, when it was nil); given     *)
(* provider data that is no *Client, it reports "Unexpected Resource       *)
(* Configure Type" and leaves the client as it was; given a *Client, it    *)
(* stores exactly that client.  While the client is nil, every Create,     *)
(* Read, Update and Delete of the resource fails with "Client Not          *)
(* Configured", sends no request and leaves the stored state as it was.    *)
(***************************************************************************)
C17_ConfigureAndNilClient ==
    /\ last.op \in {"UserConfigure", "AccessConfigure"} =>
          /\ last.input = NilClient =>
                ConfiguredClient = last.prior /\ last.diags = <<>>
          /\ last.input = NotAClient =>
                /\ ConfiguredClient = last.prior
                /\ last.diags = <<Error("Unexpected Resource Configure Type")>>
          /\ last.input \notin {NilClient, NotAClient} =>
                ConfiguredClient = last.input /\ last.diags = <<>>
    /\ (last.op \in UserCalls /\ host.userClient = NilClient) =>
          NotConfigured /\ userState = last.prior
    /\ (last.op \in AccessCalls /\ host.accessClient = NilClient) =>
          NotConfigured /\ accessState = last.prior

\* a Read of an imported state by a resource that was given no client,
\* after a Configure that was handed a value of another type
C17_Witness ==
    /\ last.op = "UserRead"
    /\ host.userClient = NilClient
    /\ userState.exists
    /\ HasDiag(host.diags, Error("Unexpected Resource Configure Type"))
    /\ HasDiag(last.diags, Error("Client Not Configured"))


(***************************************************************************)
(* C12.  In every stored domain-access state, whichever of Create, Read,   *)
(* Update and ImportState saved it, the id is user_id + ":" + domain +     *)
(* ":" + access_level of that same state.                                  *)
(***************************************************************************)
C12_IdIsCompositeKey ==
    accessState.exists => accessState.id = CompositeId(accessState)


(***************************************************************************)
(* C13.  GetUserByUsername, as the Update of a user shows its result (the  *)
(* Update is that one lookup: it saves the returned user's id and e-mail,  *)
(* drops the state on ErrNotFound and reports any other error).  It        *)
(* returns a user only when the service holds a user of the queried name,  *)
(* and then that user; it returns ErrNotFound only when the service holds  *)
(* none; and an answer that is neither 2xx nor 404 is an error, never a    *)
(* user, whatever its body.                                                *)
(***************************************************************************)
C13_LookupReturnsHeldUser ==
    last.op = "UserUpdate" =>
        /\ Len(Log) = 1
        /\ (~ Failed /\ userState.exists) =>
              \E u \in UsersNamed(remote, ValueString(last.input.username)) :
                  userState.id = Itoa(u.id) /\ userState.email = u.email
        /\ (~ Failed /\ ~ userState.exists) =>
              UsersNamed(remote, ValueString(last.input.username)) = {}
        /\ (~ Answered2xx(LookupAnswer) /\ LookupAnswer.status # 404) => Failed


(***************************************************************************)
(* The request chain of each domain-access operation, in the order sent.   *)
(***************************************************************************)
Step(method, ep) == [method |-> method, ep |-> ep]
Chain(op) ==
    CASE op = "AccessCreate" ->
            <<Step("GET", UserPath), Step("GET", GrantsPath), Step("GET", DomainsPath),
              Step("POST", DomainsPath), Step("POST", GrantsPath)>>
      [] op = "AccessRead" -> <<Step("GET", UserPath), Step("GET", GrantsPath)>>
      [] op = "AccessUpdate" ->
            <<Step("DELETE", GrantPath), Step("GET", DomainsPath),
              Step("POST", DomainsPath), Step("POST", GrantsPath)>>
      [] op = "AccessDelete" -> <<Step("DELETE", GrantPath)>>
      [] OTHER -> <<>>
StepOf(i) == Step(Log[i].req.method, Log[i].req.ep)
\* the place of the i-th request in its operation's chain
PlaceOf(i) == {k \in 1..Len(Chain(last.op)) : Chain(last.op)[k] = StepOf(i)}
\* the step failed: no answer, or a status outside 2xx other than the 404
\* by which a lookup says "not found"
StepFailed(i) ==
    \/ Log[i].resp.status = 0
    \/ /\ ~ Answered2xx(Log[i].resp)
       /\ ~ (Log[i].req.method = "GET" /\ Log[i].resp.status = 404)

(***************************************************************************)
(* C14.  Every domain-access operation is one linear chain without retry:  *)
(* each request of the chain is sent at most once, the requests are sent   *)
(* in the chain's order, and the first step that fails is the last request *)
(* of the operation, which then ends with an error diagnostic.             *)
(***************************************************************************)
C14_LinearRetryFree ==
    /\ \A i \in 1..Len(Log) : Cardinality(PlaceOf(i)) = 1
    /\ \A i, j \in 1..Len(Log) :
          i < j => \A k \in PlaceOf(i), l \in PlaceOf(j) : k < l
    /\ \A i \in 1..Len(Log) : StepFailed(i) => i = Len(Log) /\ Failed


(***************************************************************************)
(* The client package's own calls: what went in, what came out.            *)
(***************************************************************************)
Missing(arg) == arg = Null \/ arg = <<>>
EndsWithSlash(str) == Len(str) > 0 /\ str[Len(str)] = "/"
\* the number of "/" that path begins with
LeadingSlashes(path) ==
    CHOOSE k \in 0..Len(path) :
        /\ \A i \in 1..k : path[i] = "/"
        /\ k < Len(path) => path[k + 1] # "/"

(***************************************************************************)
(* C15.  NewClient returns an error and no client whenever the address,    *)
(* the username or the password is nil or empty; whenever it returns an    *)
(* error it returns no client; and a client it returns has a BaseURL that  *)
(* does not end with "/" and the Username and Password it was given.       *)
(***************************************************************************)
C15_NewClientValidates ==
    last.op = "NewClient" =>
        /\ (\/ Missing(last.input.address)
            \/ Missing(last.input.username)
            \/ Missing(last.input.password)) => last.result.err # NoError
        /\ last.result.err # NoError => last.result.client = NilClient
        /\ last.result.err = NoError =>
              /\ last.result.client # NilClient
              /\ ~ EndsWithSlash(last.result.client.BaseURL)
              /\ last.result.client.Username = last.input.username
              /\ last.result.client.Password = last.input.password

\* a client made from an address that ends with more than one "/"
C15_Witness ==
    /\ last.op = "NewClient"
    /\ last.result.err = NoError
    /\ Len(last.input.address) > 2
    /\ EndsWithSlash(last.input.address)
    /\ EndsWithSlash(SubSeq(last.input.address, 1, Len(last.input.address) - 1))

(***************************************************************************)
(* C16.  NewRequest on a nil client returns an error and no request.  A    *)
(* request it returns carries the basic-auth credentials of the client it  *)
(* was built by; its URL is the client's BaseURL, one "/", and the path    *)
(* without the "/" it began with (so the join holds exactly one "/"); and  *)
(* it carries Content-Type application/json exactly when a body was given. *)
(***************************************************************************)
C16_RequestsAreAuthenticatedAndRooted ==
    last.op = "NewRequest" =>
        /\ last.input.client = NilClient =>
              last.result.err # NoError /\ last.result.req = NoPayload
        /\ last.result.err = NoError =>
              /\ last.result.req.auth = [username |-> last.input.client.Username,
                                         password |-> last.input.client.Password]
              /\ last.result.req.url =
                    last.input.client.BaseURL \o <<"/">>
                        \o SubSeq(last.input.path, LeadingSlashes(last.input.path) + 1,
                                  Len(last.input.path))
              /\ ~ EndsWithSlash(last.input.client.BaseURL)
              /\ Len(last.result.req.url) > Len(last.input.client.BaseURL) + 1 =>
                    last.result.req.url[Len(last.input.client.BaseURL) + 2] # "/"
              /\ last.result.req.method = last.input.method
              /\ last.result.req.contentType = "application/json"
                    <=> last.input.body # NoPayload

\* a POST with a body to a path that begins with two "/"
C16_Witness ==
    /\ last.op = "NewRequest"
    /\ last.result.err = NoError
    /\ last.input.body # NoPayload
    /\ LeadingSlashes(last.input.path) = 2
    /\ Len(last.input.path) = 3

(***************************************************************************)
(* C18.  LastPathSegment, on a string with at least one non-empty segment  *)
(* between "/", returns the last non-empty segment, however many "/" the   *)
(* string ends with.                                                       *)
(***************************************************************************)
C18_LastNonEmptySegment ==
    last.op = "LastPathSegment" =>
        \A k \in 1..Len(Split(last.input, "/")) :
            (/\ Split(last.input, "/")[k] # <<>>
             /\ \A l \in (k + 1)..Len(Split(last.input, "/")) :
                    Split(last.input, "/")[l] = <<>>)
                => last.result = Split(last.input, "/")[k]


(***************************************************************************)
(* C19.  Create of a user first looks the planned username up.  When the   *)
(* lookup finds a user, Create fails with "User Exists" and sends no POST; *)
(* when the lookup fails otherwise than by "not found", Create fails with  *)
(* "Client Error" and sends no POST; the user POST is sent only after a    *)
(* lookup that answered "not found", so never while the service holds a    *)
(* user of that name and says so; and a Create that fails saves no state.  *)
(***************************************************************************)
C19_CreateChecksUsername ==
    last.op = "UserCreate" =>
        /\ Log # <<>>
        /\ Log[1].req.method = "GET" /\ Log[1].req.ep = UsersPath
        /\ Log[1].req.query.username = ValueString(last.input.username)
        /\ CarriesEntity(LookupAnswer) =>
              /\ HasDiag(last.diags, Error("User Exists"))
              /\ Len(Log) = 1
        /\ LookupFailed(LookupAnswer) =>
              /\ HasDiag(last.diags, Error("Client Error"))
              /\ Len(Log) = 1
        /\ \A k \in Sent("POST", UsersPath) : k = 2 /\ NotFoundAnswer(LookupAnswer)
        /\ Cardinality(Sent("POST", UsersPath)) <= 1
        /\ Failed => userState = NoUser

\* the service holds a user of the planned name: Create refuses, nothing is posted
C19_Witness ==
    /\ last.op = "UserCreate"
    /\ Answered2xx(LookupAnswer)
    /\ UsersNamed(remote, ValueString(last.input.username)) # {}
    /\ HasDiag(last.diags, Error("User Exists"))
    /\ Sent("POST", UsersPath) = {}
    /\ userState = NoUser


(***************************************************************************)
(* C20.  Create of a grant first looks for a grant of the planned (user,   *)
(* domain).  When the lookup finds one, Create fails with "Domain Access   *)
(* Already Exists", posts neither a domain nor a grant and saves no state; *)
(* a Create that ends without error leaves the remote with one grant for   *)
(* the pair; and over every series of operations the remote never holds    *)
(* two grants for the same user and domain.                                *)
(***************************************************************************)
C20_CreateRefusesExistingGrant ==
    /\ (/\ last.op = "AccessCreate"
        /\ Len(Log) >= 2
        /\ StepOf(2) = Step("GET", GrantsPath)
        /\ CarriesEntity(Log[2].resp)) =>
              /\ HasDiag(last.diags, Error("Domain Access Already Exists"))
              /\ Sent("POST", DomainsPath) \cup Sent("POST", GrantsPath) = {}
              /\ accessState = NoAccess
    /\ (last.op = "AccessCreate" /\ ~ Failed) =>
              Cardinality(RemoteGrantsOf(last.input)) = 1
    /\ \A g1, g2 \in remote.grants :
              (g1.user = g2.user /\ g1.domain = g2.domain) => g1 = g2


(***************************************************************************)
(* C21.  Read of a user whose stored id is set keeps that id: when the     *)
(* lookup is answered 2xx, a state Read saves carries the stored id, so    *)
(* Read never takes over the id (and email) of another remote user that    *)
(* now carries the stored username.                                        *)
(***************************************************************************)
StoredIdSet == ~ IsNull(last.prior.id) /\ last.prior.id # <<>>
C21_ReadKeepsStoredId ==
    (last.op = "UserRead" /\ StoredIdSet /\ Answered2xx(LookupAnswer)) =>
        (userState.exists => userState.id = last.prior.id)


C22_WitnessById ==
    /\ last.op = "UserDelete"
    /\ StoredIdSet
    /\ Len(Log) = 1
    /\ Answered2xx(Log[1].resp)
    /\ userState = NoUser

\* the lookup of a state without id answers "not found": nothing is deleted
C22_WitnessNotFound ==
    /\ last.op = "UserDelete"
    /\ ~ StoredIdSet
    /\ NotFoundAnswer(LookupAnswer)
    /\ Sent("DELETE", UserPath) = {}
    /\ userState = NoUser


(***************************************************************************)
(* C23.  The create helpers return an error for every answer outside       *)
(* 200..299.  A domain POST answered so ends CreateDomainAccess: no grant  *)
(* is POSTed after it and the call fails.  A grant POST answered so makes  *)
(* the call fail, and no state is saved from its body.                     *)
(***************************************************************************)
C23_CreateRefusesNon2xx ==
    CreatesGrant =>
        /\ \A k \in Sent("POST", DomainsPath) :
              ~ Answered2xx(Log[k].resp) => (k = Len(Log) /\ Failed)
        /\ \A k \in Sent("POST", GrantsPath) :
              ~ Answered2xx(Log[k].resp) => (Failed /\ accessState = last.prior)


(***************************************************************************)
(* C24.  HasValidUserPassword tells whether the service accepts the        *)
(* username and password, whatever the user's privileges.  When Read's     *)
(* probe is answered by the service itself (200, 401 or 403), Read does    *)
(* not fail; the stored password is kept, without any diagnostic, exactly  *)
(* when the service holds a user with these credentials, and is dropped    *)
(* with the warning "Invalid Password" otherwise.                          *)
(***************************************************************************)
ServiceAccepts ==
    \E u \in UsersNamed(remote, StoredCredentials.username) :
        u.password = StoredCredentials.password
C24_ProbeTellsValidity ==
    (/\ last.op = "UserRead"
     /\ ProbeSent
     /\ ProbeAnswered.status \in {200, 401, 403}) =>
        /\ ~ Failed
        /\ ServiceAccepts =>
              userState.password = last.prior.password /\ NoDiagnostics
        /\ ~ ServiceAccepts =>
              /\ userState.password = Null
              /\ HasDiag(last.diags, Warning("Invalid Password"))


(***************************************************************************)
(* C25.  Update of a grant does not lose the grant on failure.  When the   *)
(* DELETE of the stored grant was answered 2xx and Update ends with an     *)
(* error diagnostic, the stored state is unchanged and the remote still    *)
(* holds a grant for its (user_id, domain), with the stored database_id.   *)
(***************************************************************************)
C25_UpdateKeepsGrantOnFailure ==
    (/\ last.op = "AccessUpdate"
     /\ Failed
     /\ \E i \in Sent("DELETE", GrantPath) : Answered2xx(Log[i].resp)) =>
        /\ accessState = last.prior
        /\ RemoteGrantsOf(accessState) # {}
        /\ \E g \in RemoteGrantsOf(accessState) : g.id = accessState.database_id
====
